---- MODULE Spec2Model ----
(***************************************************************************)
(* Room membership and signalling state machine of voice-server            *)
(* (src/src/index.ts): the in-memory rooms registry, the per-socket        *)
(* session data, the Socket.IO rooms the sockets are in, and the three     *)
(* event handlers voice:join, voice:leave and disconnect.                  *)
(*                                                                         *)
(* JavaScript strings are sequences of one-character strings, so that      *)
(* trim() and toUpperCase() are computed and not assumed.                  *)
(***************************************************************************)
EXTENDS Naturals, Sequences, FiniteSets

(* ---------------------------------------------------------------------- *)
(* Bounds of the model                                                     *)
(* ---------------------------------------------------------------------- *)

\* Number of events the server handles in one run.
MaxEvents == 4

\* The client connections (sockets) accepted by io.on("connection").
Conns == {"c1", "c2"}

(* ---------------------------------------------------------------------- *)
(* JavaScript values and the string functions the handlers use             *)
(* ---------------------------------------------------------------------- *)

\* A JavaScript value: its type tag, and the characters when it is a string,
\* the number when it is a number, the truth value when it is a boolean.
Val(t, s, n, b) == [t |-> t, s |-> s, n |-> n, b |-> b]
Str(s) == Val("string", s, 0, FALSE)
Num(n) == Val("number", <<>>, n, FALSE)
Bool(b) == Val("boolean", <<>>, 0, b)
Undefined == Val("undefined", <<>>, 0, FALSE)
Null == Val("null", <<>>, 0, FALSE)
Obj == Val("object", <<>>, 0, FALSE)

\* JavaScript truthiness: undefined, null, 0, false and "" are falsy.
Truthy(v) ==
  CASE v.t = "string" -> v.s # <<>>
    [] v.t = "number" -> v.n # 0
    [] v.t = "boolean" -> v.b
    [] v.t = "object" -> TRUE
    [] OTHER -> FALSE

Digit(d) == <<"0", "1", "2", "3", "4", "5", "6", "7", "8", "9">>[d + 1]

RECURSIVE Digits(_)
Digits(n) == IF n < 10 THEN <<Digit(n)>> ELSE Digits(n \div 10) \o <<Digit(n % 10)>>

\* String(v) of a JavaScript value.
JSString(v) ==
  CASE v.t = "string" -> v.s
    [] v.t = "number" -> Digits(v.n)
    [] v.t = "boolean" -> IF v.b THEN <<"t", "r", "u", "e">> ELSE <<"f", "a", "l", "s", "e">>
    [] v.t = "undefined" -> <<"u", "n", "d", "e", "f", "i", "n", "e", "d">>
    [] v.t = "null" -> <<"n", "u", "l", "l">>
    [] OTHER -> <<"[", "o", "b", "j", "e", "c", "t", " ", "O", "b", "j", "e", "c", "t", "]">>

\* String(v), without the default for a falsy value.
StringNoDefault(v) == JSString(v)

\* String(v || "")
StringOrEmpty(v) == IF Truthy(v) THEN JSString(v) ELSE <<>>

WhiteSpace == {" ", "\t", "\n"}

RECURSIVE TrimStart(_)
TrimStart(s) ==
  IF s # <<>> /\ Head(s) \in WhiteSpace THEN TrimStart(Tail(s)) ELSE s

RECURSIVE TrimEnd(_)
TrimEnd(s) ==
  IF s # <<>> /\ s[Len(s)] \in WhiteSpace THEN TrimEnd(SubSeq(s, 1, Len(s) - 1)) ELSE s

\* String.prototype.trim
Trim(s) == TrimEnd(TrimStart(s))

Lower == <<"a", "b", "c", "d", "e", "f", "g", "h", "i", "j", "k", "l", "m",
           "n", "o", "p", "q", "r", "s", "t", "u", "v", "w", "x", "y", "z">>
Upper == <<"A", "B", "C", "D", "E", "F", "G", "H", "I", "J", "K", "L", "M",
           "N", "O", "P", "Q", "R", "S", "T", "U", "V", "W", "X", "Y", "Z">>

UpperChar(ch) ==
  IF \E i \in 1 .. Len(Lower) : Lower[i] = ch
    THEN Upper[CHOOSE i \in 1 .. Len(Lower) : Lower[i] = ch]
    ELSE ch

\* String.prototype.toUpperCase
ToUpperCase(s) == [i \in 1 .. Len(s) |-> UpperChar(s[i])]

\* The room id trimmed but in the case it came in.
normRoomIdNoUpper(id) == Trim(StringOrEmpty(id))

\* normRoomId(id): String(id || "").trim().toUpperCase()
normRoomId(id) == ToUpperCase(Trim(StringOrEmpty(id)))

\* The identifier as a string, with its surrounding whitespace.
normIdNoTrim(raw) == StringOrEmpty(raw)

\* String(payload?.uid || "").trim(), also used for peerId
normId(raw) == Trim(StringOrEmpty(raw))

Guest == <<"G", "u", "e", "s", "t">>

\* String(payload?.name || "").trim() || "Guest"
normName(raw) == IF Trim(StringOrEmpty(raw)) = <<>> THEN Guest ELSE Trim(StringOrEmpty(raw))

(* ---------------------------------------------------------------------- *)
(* Inputs of the events                                                    *)
(* ---------------------------------------------------------------------- *)

\* Raw payload fields that pass the validation of the handlers. They
\* normalise to the rooms X and Y, the uids u and v, the names a and Guest,
\* the peer ids p and q.
RoomIdInputs == {Str(<<" ", "x">>), Str(<<"Y", " ">>)}
UidInputs == {Str(<<"u", " ">>), Str(<<"v">>)}
Profiles == {[name |-> Str(<<"a">>), peerId |-> Str(<<"p">>)],
             [name |-> Str(<<" ">>), peerId |-> Str(<<" ", "q">>)]}

ValidJoins ==
  {[roomId |-> r, uid |-> u, name |-> pr.name, peerId |-> pr.peerId] :
     r \in RoomIdInputs, u \in UidInputs, pr \in Profiles}

\* Payloads with one required field missing, empty or blank.
InvalidJoins ==
  {[roomId |-> Undefined, uid |-> Str(<<"u">>), name |-> Str(<<"a">>), peerId |-> Str(<<"p">>)],
   [roomId |-> Str(<<"x">>), uid |-> Str(<<" ">>), name |-> Str(<<"a">>), peerId |-> Str(<<"p">>)],
   [roomId |-> Str(<<"x">>), uid |-> Str(<<"u">>), name |-> Str(<<"a">>), peerId |-> Str(<<>>)]}

JoinPayloads == ValidJoins \cup InvalidJoins

ValidLeaves == [roomId : RoomIdInputs, uid : UidInputs]

InvalidLeaves ==
  {[roomId |-> Str(<<" ">>), uid |-> Str(<<"u">>)],
   [roomId |-> Str(<<"x">>), uid |-> Null]}

LeavePayloads == ValidLeaves \cup InvalidLeaves

\* Inputs for the normalisation of the identifiers: raw room ids that differ
\* by letter case and surrounding whitespace only, uids that differ by case,
\* and values that are no strings.
CaseVariants == {Str(<<"x">>), Str(<<" ", "X", " ">>)}
CaseUids == {Str(<<" ", "u", " ">>), Str(<<"U">>)}
NonStrings == {Undefined, Null, Num(0), Num(7), Bool(FALSE), Bool(TRUE), Obj}

PlainJoin ==
  [roomId |-> Str(<<"x">>), uid |-> Str(<<" ", "u", " ">>), name |-> Str(<<"a">>),
   peerId |-> Str(<<"p">>)]

NormJoins ==
  {[PlainJoin EXCEPT !.roomId = r, !.uid = u] : r \in CaseVariants, u \in CaseUids}
    \cup {[PlainJoin EXCEPT !.roomId = r] : r \in NonStrings}
    \cup {[PlainJoin EXCEPT !.name = Str(<<" ">>), !.peerId = Str(<<"q", " ">>)],
          [PlainJoin EXCEPT !.uid = Num(7), !.name = Undefined, !.peerId = Bool(TRUE)]}

NormLeaves ==
  [roomId : CaseVariants, uid : CaseUids]
    \cup [roomId : {Undefined, Num(7)}, uid : {Str(<<" ", "u", " ">>)}]

(* ---------------------------------------------------------------------- *)
(* State                                                                   *)
(* ---------------------------------------------------------------------- *)

VARIABLES
  rooms,      \* the registry: room id -> members (uid -> User), in insertion order
  data,       \* socket.data of every connection: its rid and uid
  adapter,    \* the Socket.IO rooms (broadcast groups) every connection is in
  connected,  \* whether the connection is still open
  installer,  \* for every member of the registry, the connection whose join set it
  leftSeen,   \* how often a connection received voice:user-left for (rid, uid)
              \* since a join last set (rid, uid)
  joined,     \* the connections that have had a successful voice:join
  ev,         \* the event handled last: its payload, its normalised fields,
              \* and what it acknowledged and emitted
  nEvents     \* the number of events handled

vars == <<rooms, data, adapter, connected, installer, leftSeen, joined, ev, nEvents>>

\* The names of the events the server emits.
UserJoined == "voice:user-joined"
UserLeft == "voice:user-left"

\* socket.data.rid / socket.data.uid before any assignment; the handlers only
\* test them with !rid / !uid, which the empty string answers alike.
Unset == <<>>

\* An event without payload: every field of it reads undefined.
NoPayload == [roomId |-> Undefined, uid |-> Undefined, name |-> Undefined, peerId |-> Undefined]

NoEvent ==
  [kind |-> "none", conn |-> "none", payload |-> NoPayload,
   rid |-> <<>>, uid |-> <<>>, name |-> <<>>,
   peerId |-> <<>>, ack |-> "none", peers |-> <<>>, removed |-> FALSE,
   emit |-> "none", to |-> {}]

\* A Map<uid, User>, as the sequence of its values in insertion order.
MapHas(map, uid) == \E i \in 1 .. Len(map) : map[i].uid = uid

MapIndex(map, uid) == CHOOSE i \in 1 .. Len(map) : map[i].uid = uid

\* Map.prototype.set as a list push: a set of an existing key adds a second entry.
MapSetAppends(map, user) == Append(map, user)

\* Map.prototype.set as delete-then-insert: a set of an existing key moves it last.
MapSetMovesLast(map, user) ==
  SelectSeq(map, LAMBDA m : m.uid # user.uid) \o <<user>>

\* Map.prototype.set: an existing key keeps its position, a new key goes last.
MapSet(map, user) ==
  IF MapHas(map, user.uid)
    THEN [map EXCEPT ![MapIndex(map, user.uid)] = user]
    ELSE Append(map, user)

\* Map.prototype.delete that drops the oldest entry when the key is absent.
MapDeleteAny(map, uid) ==
  IF MapHas(map, uid)
    THEN SubSeq(map, 1, MapIndex(map, uid) - 1) \o SubSeq(map, MapIndex(map, uid) + 1, Len(map))
    ELSE Tail(map)

\* Map.prototype.delete
MapDelete(map, uid) ==
  IF MapHas(map, uid)
    THEN SubSeq(map, 1, MapIndex(map, uid) - 1) \o SubSeq(map, MapIndex(map, uid) + 1, Len(map))
    ELSE map

\* rooms.get(rid) ?? new Map() that never finds the room: every join starts a new Map.
RoomOrNewAlwaysNew(rid) == <<>>

\* rooms.get(rid) ?? new Map()
RoomOrNew(rid) == IF rid \in DOMAIN rooms THEN rooms[rid] ELSE <<>>

\* rooms.set(rid, map) on a registry emptied first: the other rooms are lost.
RoomsSetOnly(reg, rid, map) == [r \in {rid} |-> map]

\* rooms.set(rid, map)
RoomsSet(reg, rid, map) == [r \in DOMAIN reg \cup {rid} |-> IF r = rid THEN map ELSE reg[r]]

\* rooms.delete(rid)
RoomsDelete(reg, rid) == [r \in DOMAIN reg \ {rid} |-> reg[r]]

\* RemoveMember without the size check: the emptied room stays in the registry.
RemoveMemberKeepsRoom(reg, rid, uid) == [reg EXCEPT ![rid] = MapDelete(reg[rid], uid)]

\* map.delete(uid); if (map.size === 0) rooms.delete(rid)
RemoveMember(reg, rid, uid) ==
  IF Len(MapDelete(reg[rid], uid)) = 0
    THEN RoomsDelete(reg, rid)
    ELSE [reg EXCEPT ![rid] = MapDelete(reg[rid], uid)]

\* The validation of voice:join without the test of peerId.
BadRequestNoPeerId(rid, uid, peerId) == rid = <<>> \/ uid = <<>>

\* if (!rid || !uid || !peerId) of voice:join
BadRequest(rid, uid, peerId) == rid = <<>> \/ uid = <<>> \/ peerId = <<>>

\* if (!rid || !uid) return; if (!map) return; of voice:leave and disconnect
Ignored(rid, uid) == rid = <<>> \/ uid = <<>> \/ rid \notin DOMAIN rooms

\* The sockets socket.to(rid).emit reaches: those in room rid, but the sender.
Others(c, rid) == {d \in Conns \ {c} : rid \in adapter[d]}

\* socket.join(rid)
SocketJoin(ad, c, rid) == [ad EXCEPT ![c] = @ \cup {rid}]

\* socket.leave(rid)
SocketLeave(ad, c, rid) == [ad EXCEPT ![c] = @ \ {rid}]

\* Whether uid is a member of room rid of the registry.
IsMember(rid, uid) == rid \in DOMAIN rooms /\ MapHas(rooms[rid], uid)

\* The installer record after (rid, uid) was removed from the registry.
Forget(ins, rid, uid) == [k \in DOMAIN ins \ {<<rid, uid>>} |-> ins[k]]

\* The installer record after connection c set (rid, uid).
Install(ins, rid, uid, c) ==
  [k \in DOMAIN ins \cup {<<rid, uid>>} |-> IF k = <<rid, uid>> THEN c ELSE ins[k]]

\* leftSeen after voice:user-left{uid} of room rid reached the connections to.
Delivered(seen, to, rid, uid) ==
  [k \in DOMAIN seen \cup {<<d, rid, uid>> : d \in to} |->
     IF k[1] \in to /\ k[2] = rid /\ k[3] = uid
       THEN (IF k \in DOMAIN seen THEN seen[k] ELSE 0) + 1
       ELSE seen[k]]

\* leftSeen after a join set (rid, uid): its earlier departures are over.
Rejoined(seen, rid, uid) ==
  [k \in {j \in DOMAIN seen : ~(j[2] = rid /\ j[3] = uid)} |-> seen[k]]

\* How often connection d received voice:user-left{uid} of room rid.
Seen(d, rid, uid) == IF <<d, rid, uid>> \in DOMAIN leftSeen THEN leftSeen[<<d, rid, uid>>] ELSE 0

Init ==
  /\ rooms = <<>>
  /\ data = [c \in Conns |-> [rid |-> Unset, uid |-> Unset]]
  /\ adapter = [c \in Conns |-> {}]
  /\ connected = [c \in Conns |-> TRUE]
  /\ installer = <<>>
  /\ leftSeen = <<>>
  /\ joined = {}
  /\ ev = NoEvent
  /\ nEvents = 0

\* One more event is handled, of at most MaxEvents.
Handled == nEvents < MaxEvents /\ nEvents' = nEvents + 1

(* ---------------------------------------------------------------------- *)
(* The handlers                                                            *)
(* ---------------------------------------------------------------------- *)

\* voice:join with socket.data.rid and socket.data.uid assigned before the
\* validation instead of after it.
JoinBindsFirst(c, payload) ==
  LET rid == normRoomId(payload.roomId)
      uid == normId(payload.uid)
      name == normName(payload.name)
      peerId == normId(payload.peerId)
      map == MapSet(RoomOrNew(rid), [uid |-> uid, name |-> name, peerId |-> peerId])
      event == [NoEvent EXCEPT !.kind = "join", !.conn = c, !.payload = payload,
                                !.rid = rid, !.uid = uid, !.name = name, !.peerId = peerId]
  IN
  /\ connected[c]
  /\ Handled
  /\ data' = [data EXCEPT ![c] = [rid |-> rid, uid |-> uid]]
  /\ IF BadRequest(rid, uid, peerId)
       THEN /\ ev' = [event EXCEPT !.ack = "BAD_REQUEST"]
            /\ UNCHANGED <<rooms, adapter, connected, installer, leftSeen, joined>>
       ELSE /\ rooms' = RoomsSet(rooms, rid, map)
            /\ adapter' = SocketJoin(adapter, c, rid)
            /\ installer' = Install(installer, rid, uid, c)
            /\ leftSeen' = Rejoined(leftSeen, rid, uid)
            /\ ev' = [event EXCEPT !.ack = "ok", !.peers = map,
                                   !.emit = UserJoined, !.to = Others(c, rid)]
            /\ joined' = joined \cup {c}
            /\ UNCHANGED connected

\* socket.on("voice:join", (payload, ack) => ...). ev.ack and ev.peers are
\* the response handed to ack.
Join(c, payload) ==
  LET rid == normRoomId(payload.roomId)
      uid == normId(payload.uid)
      name == normName(payload.name)
      peerId == normId(payload.peerId)
      map == MapSet(RoomOrNew(rid), [uid |-> uid, name |-> name, peerId |-> peerId])
      event == [NoEvent EXCEPT !.kind = "join", !.conn = c, !.payload = payload,
                                !.rid = rid, !.uid = uid, !.name = name, !.peerId = peerId]
  IN
  /\ connected[c]
  /\ Handled
  /\ IF BadRequest(rid, uid, peerId)
       THEN /\ ev' = [event EXCEPT !.ack = "BAD_REQUEST"]
            /\ UNCHANGED <<rooms, data, adapter, connected, installer, leftSeen, joined>>
       ELSE /\ rooms' = RoomsSet(rooms, rid, map)
            /\ adapter' = SocketJoin(adapter, c, rid)
            /\ data' = [data EXCEPT ![c] = [rid |-> rid, uid |-> uid]]
            /\ installer' = Install(installer, rid, uid, c)
            /\ leftSeen' = Rejoined(leftSeen, rid, uid)
            /\ ev' = [event EXCEPT !.ack = "ok", !.peers = map,
                                   !.emit = UserJoined, !.to = Others(c, rid)]
            /\ joined' = joined \cup {c}
            /\ UNCHANGED connected

\* socket.on("voice:leave", (payload) => ...)
Leave(c, payload) ==
  LET rid == normRoomId(payload.roomId)
      uid == normId(payload.uid)
      event == [NoEvent EXCEPT !.kind = "leave", !.conn = c,
                                !.payload = [NoPayload EXCEPT !.roomId = payload.roomId,
                                                              !.uid = payload.uid],
                                !.rid = rid, !.uid = uid]
  IN
  /\ connected[c]
  /\ Handled
  /\ IF Ignored(rid, uid)
       THEN /\ ev' = event
            /\ UNCHANGED <<rooms, data, adapter, connected, installer, leftSeen, joined>>
       ELSE /\ rooms' = RemoveMember(rooms, rid, uid)
            /\ installer' = Forget(installer, rid, uid)
            /\ adapter' = SocketLeave(adapter, c, rid)
            /\ leftSeen' = Delivered(leftSeen, Others(c, rid), rid, uid)
            /\ ev' = [event EXCEPT !.removed = IsMember(rid, uid),
                                   !.emit = UserLeft, !.to = Others(c, rid)]
            /\ UNCHANGED <<data, connected, joined>>

\* socket.on("disconnect", () => ...). Socket.IO has taken the socket out of
\* all its rooms before it emits "disconnect".
Disconnect(c) ==
  LET rid == data[c].rid
      uid == data[c].uid
      event == [NoEvent EXCEPT !.kind = "disconnect", !.conn = c, !.rid = rid, !.uid = uid]
  IN
  /\ connected[c]
  /\ Handled
  /\ connected' = [connected EXCEPT ![c] = FALSE]
  /\ adapter' = [adapter EXCEPT ![c] = {}]
  /\ IF Ignored(rid, uid)
       THEN /\ ev' = event
            /\ UNCHANGED <<rooms, data, installer, leftSeen, joined>>
       ELSE /\ rooms' = RemoveMember(rooms, rid, uid)
            /\ installer' = Forget(installer, rid, uid)
            /\ leftSeen' = Delivered(leftSeen, Others(c, rid), rid, uid)
            /\ ev' = [event EXCEPT !.removed = IsMember(rid, uid),
                                   !.emit = UserLeft, !.to = Others(c, rid)]
            /\ UNCHANGED <<data, joined>>

\* One event of one connection is handled to its end before the next: the
\* handlers are synchronous callbacks of the Node.js event loop.
Next ==
  \/ \E c \in Conns, p \in JoinPayloads : Join(c, p)
  \/ \E c \in Conns, p \in LeavePayloads : Leave(c, p)
  \/ \E c \in Conns : Disconnect(c)

Spec == Init /\ [][Next]_vars

\* The same handlers, with the inputs for the normalisation of the identifiers.
NextNorm ==
  \/ \E c \in Conns, p \in NormJoins : Join(c, p)
  \/ \E c \in Conns, p \in NormLeaves : Leave(c, p)
  \/ \E c \in Conns : Disconnect(c)

SpecNorm == Init /\ [][NextNorm]_vars

(* ---------------------------------------------------------------------- *)
(* Properties                                                              *)
(* ---------------------------------------------------------------------- *)

\* The connections that have a member in room rid: they set one of its
\* members, or their socket.data names one of its members.
HasMemberIn(d, rid) ==
  \/ \E k \in DOMAIN installer : k[1] = rid /\ installer[k] = d
  \/ data[d].rid = rid /\ IsMember(rid, data[d].uid)

\* The rooms in which connection c has a member it set, or whose broadcast
\* group it is in.
RoomsOf(c) ==
  adapter[c] \cup {k[1] : k \in {j \in DOMAIN installer : installer[j] = c}}

\* C1: every room key of the registry maps to a member map with at least one
\* member, in every state: an event that removes the last member of a room
\* leaves a state without the room's key.
C1_NoEmptyRoom == \A r \in DOMAIN rooms : Len(rooms[r]) >= 1

\* A leave or disconnect has just removed the last member of a room, and the
\* room's key is gone.
C1_Witness ==
  /\ ev.kind \in {"leave", "disconnect"}
  /\ ev.removed
  /\ ev.rid \notin DOMAIN rooms

\* C2: a voice:join whose roomId, uid or peerId is empty after normalization
\* is answered BAD_REQUEST, emits nothing, and leaves the registry, the
\* session data and the broadcast groups as they were.
C2_BadJoinMutatesNothing ==
  [][(ev'.kind = "join" /\ (ev'.rid = <<>> \/ ev'.uid = <<>> \/ ev'.peerId = <<>>))
       => /\ ev'.ack = "BAD_REQUEST"
          /\ ev'.emit = "none"
          /\ ev'.to = {}
          /\ rooms' = rooms
          /\ data' = data
          /\ adapter' = adapter]_vars

\* A connection that is a member of a room has just had a join without
\* peerId rejected.
C2_Witness ==
  /\ ev.kind = "join"
  /\ ev.ack = "BAD_REQUEST"
  /\ ev.peerId = <<>>
  /\ ev.rid # <<>>
  /\ ev.uid # <<>>
  /\ data[ev.conn].rid # Unset
  /\ IsMember(data[ev.conn].rid, data[ev.conn].uid)

\* C3: when the connection that joined room R as u leaves or disconnects
\* while another open connection's member remains in R, then afterwards u is
\* no member of R and every such connection has received user-left{u} of R
\* exactly once since u joined.
C3_UserLeftExactlyOnce ==
  (/\ ev.kind = "disconnect" \/ (ev.kind = "leave" /\ ev.removed)
   /\ ev.rid # <<>>
   /\ data[ev.conn] = [rid |-> ev.rid, uid |-> ev.uid])
    => /\ ~IsMember(ev.rid, ev.uid)
       /\ \A k \in DOMAIN installer :
            (k[1] = ev.rid /\ installer[k] # ev.conn /\ connected[installer[k]])
              => Seen(installer[k], ev.rid, ev.uid) = 1

\* C4: a leave or disconnect whose user-left{uid} reaches a connection has
\* removed uid from the member map of the room.
C4_UserLeftOnlyOnRemoval ==
  [][(ev'.kind \in {"leave", "disconnect"} /\ ev'.emit = UserLeft /\ ev'.to # {})
       => /\ IsMember(ev'.rid, ev'.uid)
          /\ ~(ev'.rid \in DOMAIN rooms' /\ MapHas(rooms'[ev'.rid], ev'.uid))]_vars

\* C5: after a voice:leave with non-empty normalized roomId and uid, the
\* connection that sent it has no session binding.
C5_LeaveUnbinds ==
  (ev.kind = "leave" /\ ev.rid # <<>> /\ ev.uid # <<>>)
    => data[ev.conn] = [rid |-> Unset, uid |-> Unset]

\* C6: no connection has members it set, or broadcast-group membership, in
\* two different rooms.
C6_OneRoomPerConnection == \A c \in Conns : Cardinality(RoomsOf(c)) <= 1

\* C7: a successful join of a uid that is a member of the room keeps the
\* number of members, and leaves exactly one entry for the uid, with the name
\* and peerId of this join.
C7_LastWriteWins ==
  [][(ev'.kind = "join" /\ ev'.ack = "ok" /\ IsMember(ev'.rid, ev'.uid))
       => /\ Len(rooms'[ev'.rid]) = Len(rooms[ev'.rid])
          /\ Cardinality({i \in 1 .. Len(rooms'[ev'.rid]) :
                            rooms'[ev'.rid][i].uid = ev'.uid}) = 1
          /\ \A i \in 1 .. Len(rooms'[ev'.rid]) :
               rooms'[ev'.rid][i].uid = ev'.uid
                 => rooms'[ev'.rid][i] =
                      [uid |-> ev'.uid, name |-> ev'.name, peerId |-> ev'.peerId]]_vars

\* The first of two members of a room has just joined again, from the other
\* connection's socket or its own, with another name and peerId than a and p.
C7_Witness ==
  /\ ev.kind = "join"
  /\ ev.ack = "ok"
  /\ Len(rooms[ev.rid]) = 2
  /\ rooms[ev.rid][1] = [uid |-> ev.uid, name |-> Guest, peerId |-> <<"q">>]
  /\ installer[<<ev.rid, ev.uid>>] # installer[<<ev.rid, rooms[ev.rid][2].uid>>]

\* C8: the user-joined of a successful join to room R reaches exactly the
\* other connections that have a member in R.
C8_UserJoinedToMembers ==
  (ev.kind = "join" /\ ev.ack = "ok")
    => ev.to = {d \in Conns \ {ev.conn} : HasMemberIn(d, ev.rid)}

\* C9: a voice:leave whose roomId or uid is empty after normalization, or
\* that names a room that is not in the registry or a uid that is no member
\* of the room, leaves the registry as it was and is not acknowledged.
C9_FailedLeaveKeepsRegistry ==
  [][(/\ ev'.kind = "leave"
      /\ \/ ev'.rid = <<>>
         \/ ev'.uid = <<>>
         \/ ev'.rid \notin DOMAIN rooms
         \/ ~MapHas(rooms[ev'.rid], ev'.uid))
       => /\ rooms' = rooms
          /\ ev'.ack = "none"]_vars

\* A leave has just named a uid that is no member of a room of the registry.
C9_Witness ==
  /\ ev.kind = "leave"
  /\ ev.emit = UserLeft
  /\ ~ev.removed
  /\ ev.rid \in DOMAIN rooms

\* C10: after a voice:leave for room R with non-empty normalized roomId and
\* uid, the connection that sent it is not in R's broadcast group.
C10_LeaveDetaches ==
  (ev.kind = "leave" /\ ev.rid # <<>> /\ ev.uid # <<>>)
    => ev.rid \notin adapter[ev.conn]

\* The uids of a member map, in its iteration order.
Uids(map) == [i \in 1 .. Len(map) |-> map[i].uid]

\* C11: a connection is in room R's broadcast group exactly when the registry
\* holds a member of R that this connection's join set and that has not been
\* removed since.
C11_GroupInLockstep ==
  \A c \in Conns : \A r \in adapter[c] \cup DOMAIN rooms :
    r \in adapter[c] <=> HasMemberIn(c, r)

\* C12: a successful join to a room that is not in the registry creates its
\* one entry with the joiner as only member; a successful join of another uid
\* to a room of the registry adds no room entry and loses no member, and its
\* acknowledgement lists the earlier members and the joiner.
C12_NoLostUpdate ==
  [][(ev'.kind = "join" /\ ev'.ack = "ok" /\ ~IsMember(ev'.rid, ev'.uid))
       => /\ DOMAIN rooms' = DOMAIN rooms \cup {ev'.rid}
          /\ rooms'[ev'.rid] =
               Append(IF ev'.rid \in DOMAIN rooms THEN rooms[ev'.rid] ELSE <<>>,
                      [uid |-> ev'.uid, name |-> ev'.name, peerId |-> ev'.peerId])
          /\ ev'.peers = rooms'[ev'.rid]]_vars

\* Two connections have joined the same new room with different uids, one
\* after the other: one room entry holds both and the second ack lists both.
C12_Witness ==
  /\ nEvents = 2
  /\ ev.kind = "join"
  /\ ev.ack = "ok"
  /\ DOMAIN rooms = {ev.rid}
  /\ Len(ev.peers) = 2
  /\ ev.peers[2].uid = ev.uid
  /\ installer[<<ev.rid, ev.peers[1].uid>>] # ev.conn

\* C13: the peers of a successful join's acknowledgement are the members of
\* the room after the join, the joiner among them, in insertion order: a new
\* uid comes last, a uid that was a member keeps its place.
C13_PeersInInsertionOrder ==
  [][(ev'.kind = "join" /\ ev'.ack = "ok")
       => /\ ev'.rid \in DOMAIN rooms'
          /\ ev'.peers = rooms'[ev'.rid]
          /\ \E i \in 1 .. Len(ev'.peers) :
               ev'.peers[i] = [uid |-> ev'.uid, name |-> ev'.name, peerId |-> ev'.peerId]
          /\ Uids(ev'.peers) =
               IF IsMember(ev'.rid, ev'.uid)
                 THEN Uids(rooms[ev'.rid])
                 ELSE Append(IF ev'.rid \in DOMAIN rooms THEN Uids(rooms[ev'.rid]) ELSE <<>>,
                             ev'.uid)]_vars

\* The first of two members has joined again with another peerId: the ack
\* lists it first, with the new peerId, and the other member second.
C13_Witness ==
  /\ nEvents = 3
  /\ ev.kind = "join"
  /\ ev.ack = "ok"
  /\ Len(ev.peers) = 2
  /\ ev.peers[1].uid = ev.uid
  /\ ev.peers[1].peerId = <<"p">>
  /\ ev.peers[2].peerId = <<"q">>

\* The uid that a raw uid of the normalisation inputs stands for: trimmed, in
\* the case it came in.
TrimmedUid(v) ==
  CASE v = Str(<<" ", "u", " ">>) -> <<"u">>
    [] v = Str(<<"U">>) -> <<"U">>
    [] v = Num(7) -> <<"7">>

\* C14: raw room ids that differ by letter case and surrounding whitespace
\* only address one room, X: a join with either puts the joiner into X next
\* to the members X had, acknowledges with the members of X and notifies the
\* other connections in the group of X; a leave with either removes the
\* member from X. Uids are trimmed only: u and U are two members.
C14_RoomByNormalizedId ==
  [][(ev'.kind \in {"join", "leave"} /\ ev'.payload.roomId \in CaseVariants)
       => LET uid == TrimmedUid(ev'.payload.uid)
              before == IF <<"X">> \in DOMAIN rooms THEN rooms[<<"X">>] ELSE <<>>
          IN /\ ev'.rid = <<"X">>
             /\ ev'.uid = uid
             /\ \A v \in CaseVariants : v.s # <<"X">> => v.s \notin DOMAIN rooms'
             /\ ev'.kind = "join"
                  => /\ ev'.ack = "ok"
                     /\ <<"X">> \in DOMAIN rooms'
                     /\ ev'.peers = rooms'[<<"X">>]
                     /\ \E i \in 1 .. Len(ev'.peers) : ev'.peers[i].uid = uid
                     /\ \A i \in 1 .. Len(before) :
                          before[i].uid # uid
                            => \E j \in 1 .. Len(ev'.peers) : ev'.peers[j] = before[i]
                     /\ ev'.emit = UserJoined
                     /\ ev'.to = {d \in Conns \ {ev'.conn} : <<"X">> \in adapter[d]}
             /\ ev'.kind = "leave"
                  => /\ <<"X">> \in DOMAIN rooms'
                          => \A i \in 1 .. Len(rooms'[<<"X">>]) : rooms'[<<"X">>][i].uid # uid
                     /\ ev'.removed <=> \E i \in 1 .. Len(before) : before[i].uid = uid]_vars

\* One connection has joined as u, then the other has joined as U with the
\* room id in the other spelling: one room X holds u and U, the second ack
\* lists both and the first connection is notified.
C14_Witness ==
  /\ nEvents = 2
  /\ ev.kind = "join"
  /\ ev.payload.roomId = Str(<<" ", "X", " ">>)
  /\ DOMAIN rooms = {<<"X">>}
  /\ Uids(ev.peers) = << <<"u">>, <<"U">> >>
  /\ ev.to = Conns \ {ev.conn}

\* No whitespace at either end.
IsTrimmed(s) == s = <<>> \/ (s[1] \notin WhiteSpace /\ s[Len(s)] \notin WhiteSpace)

\* No lowercase letter.
IsUpperCase(s) == \A i \in 1 .. Len(s) : \A j \in 1 .. Len(Lower) : s[i] # Lower[j]

\* C15: every member in the registry is well formed: its room's key is a
\* non-empty, trimmed, uppercase string, no other entry of its room has its
\* uid, its uid and peerId are non-empty and trimmed, its name is non-empty;
\* a join whose name is blank or missing stores the name Guest.
C15_MembersWellFormed ==
  /\ \A r \in DOMAIN rooms :
       /\ r # <<>>
       /\ IsTrimmed(r)
       /\ IsUpperCase(r)
       /\ \A i \in 1 .. Len(rooms[r]) :
            /\ rooms[r][i].uid # <<>>
            /\ IsTrimmed(rooms[r][i].uid)
            /\ rooms[r][i].peerId # <<>>
            /\ IsTrimmed(rooms[r][i].peerId)
            /\ rooms[r][i].name # <<>>
            /\ \A j \in 1 .. Len(rooms[r]) : rooms[r][j].uid = rooms[r][i].uid => j = i
  /\ (/\ ev.kind = "join"
      /\ ev.ack = "ok"
      /\ ev.payload.name \in {Str(<<" ">>), Undefined})
       => \E i \in 1 .. Len(rooms[ev.rid]) :
            rooms[ev.rid][i].uid = ev.uid /\ rooms[ev.rid][i].name = Guest

\* A join with a blank name and a peerId with trailing whitespace has
\* succeeded: the member is stored with the name Guest and the peerId q,
\* next to another member.
C15_Witness ==
  /\ ev.kind = "join"
  /\ ev.ack = "ok"
  /\ ev.payload.name = Str(<<" ">>)
  /\ Len(rooms[ev.rid]) = 2
  /\ \E i \in 1 .. 2 :
       /\ rooms[ev.rid][i].uid = ev.uid
       /\ rooms[ev.rid][i].name = Guest
       /\ rooms[ev.rid][i].peerId = <<"q">>

\* The members of room rid other than uid, in registry reg.
OtherMembers(reg, rid, uid) ==
  IF rid \in DOMAIN reg
    THEN {reg[rid][i] : i \in {j \in 1 .. Len(reg[rid]) : reg[rid][j].uid # uid}}
    ELSE {}

\* C16: a connection that has had no successful join has no session binding,
\* and its disconnect leaves the registry as it was and emits nothing.
C16_UnboundDisconnectIsNoOp ==
  [][/\ \A c \in Conns \ joined' : data'[c] = [rid |-> Unset, uid |-> Unset]
     /\ (ev'.kind = "disconnect" /\ ev'.conn \notin joined)
          => /\ rooms' = rooms
             /\ ev'.emit = "none"
             /\ ev'.to = {}]_vars

\* A connection without a successful join has disconnected while the
\* registry held a room.
C16_Witness ==
  /\ ev.kind = "disconnect"
  /\ ev.conn \notin joined
  /\ DOMAIN rooms # {}

\* The room id that a raw roomId of the normalisation inputs stands for, by
\* the rules of JavaScript for String(id || "").
RoomIdOf(v) ==
  CASE v \in CaseVariants -> <<"X">>
    [] v = Num(7) -> <<"7">>
    [] v = Bool(TRUE) -> <<"T", "R", "U", "E">>
    [] v = Obj -> <<"[", "O", "B", "J", "E", "C", "T", " ", "O", "B", "J", "E", "C", "T", "]">>
    [] OTHER -> <<>>

C18_StaleDisconnectKeepsMember ==
  [][(/\ ev'.kind = "disconnect"
      /\ IsMember(ev'.rid, ev'.uid)
      /\ installer[<<ev'.rid, ev'.uid>>] # ev'.conn)
       => /\ ev'.rid \in DOMAIN rooms'
          /\ rooms'[ev'.rid] = rooms[ev'.rid]
          /\ ev'.emit # UserLeft]_vars

\* C19: once every connection that has had a successful join is
\* disconnected, the registry is empty.
C19_NoLeak ==
  (joined # {} /\ \A c \in joined : ~connected[c]) => rooms = <<>>

\* C20: an event changes the member map of no room but the one it names, and
\* in that room no entry but the one of the uid it names.
C20_Frame ==
  [][/\ \A r \in (DOMAIN rooms \cup DOMAIN rooms') \ {ev'.rid} :
          r \in DOMAIN rooms /\ r \in DOMAIN rooms' /\ rooms'[r] = rooms[r]
     /\ OtherMembers(rooms', ev'.rid, ev'.uid) = OtherMembers(rooms, ev'.rid, ev'.uid)]_vars

\* A leave has removed one of two members of a room while the registry held
\* a second room.
C20_Witness ==
  /\ ev.kind = "leave"
  /\ ev.removed
  /\ ev.rid \in DOMAIN rooms
  /\ Cardinality(DOMAIN rooms) = 2

====
